---- MODULE Spec2Model ----
(***************************************************************************)
(* Model of the RAG pipeline of imwonpark/RAG-based-SE:                    *)
(*   backend/src/retrieval/rag_pipeline.py   RAGPipeline                   *)
(*   backend/src/ingestion/text_chunker.py   TextChunker                   *)
(*   backend/src/retrieval/vector_store.py   VectorStore                   *)
(*                                                                         *)
(* Python strings are sequences of one-character strings.  Distances are   *)
(* integers counting tenths, similarities and thresholds are integers      *)
(* counting twentieths, so that similarity = 1 - distance/2 is exact.      *)
(***************************************************************************)
EXTENDS Integers, Sequences, FiniteSets, TLC

VARIABLES
    use_llm,          \* RAGPipeline.use_llm
    llm_client,       \* RAGPipeline.llm_client: "None" or "client"
    search_results,   \* what vector_store.search_by_text returns for the call
    llm_reply,        \* what llm_client.chat.completions.create does when called
    query_args,       \* arguments of the RAGPipeline.query call
    query_result,     \* outcome of the RAGPipeline.query call
    search_table,     \* what search_by_text returns for each query text of a batch
    batch_args,       \* arguments of the RAGPipeline.batch_query call
    batch_result,     \* outcome of the RAGPipeline.batch_query call
    chunker,          \* TextChunker fields
    chunk_args,       \* arguments of the TextChunker.chunk_text call
    chunk_result,     \* outcome of the TextChunker.chunk_text call
    overlap_args,     \* argument of the TextChunker._get_overlap call
    overlap_result,   \* outcome of the TextChunker._get_overlap call
    collection,       \* VectorStore.collection: the stored records
    chroma,           \* how the ChromaDB collection behaves in collection.add
    add_args,         \* arguments of the VectorStore.add_chunks call
    add_result        \* outcome of the VectorStore.add_chunks call

qvars == <<use_llm, llm_client, search_results, llm_reply, query_args, query_result>>
cvars == <<chunker, chunk_args, chunk_result>>
svars == <<collection, chroma, add_args, add_result>>
bvars == <<search_table, batch_args, batch_result>>
ovars == <<overlap_args, overlap_result>>
vars == <<qvars, cvars, svars, bvars, ovars>>

(***************************************************************************)
(* Python helpers                                                          *)
(***************************************************************************)

\* str.isspace characters of the model alphabet
Whitespace == {" ", "\n"}

\* s[:n]
Take(s, n) == SubSeq(s, 1, IF n < Len(s) THEN n ELSE Len(s))

\* s[n:] counted from the left, n >= 0
Drop(s, n) == SubSeq(s, n + 1, Len(s))

RECURSIVE LStrip(_)
LStrip(s) ==
    IF s # <<>> /\ s[1] \in Whitespace THEN LStrip(Tail(s)) ELSE s

RECURSIVE RStrip(_)
RStrip(s) ==
    IF s # <<>> /\ s[Len(s)] \in Whitespace
    THEN RStrip(SubSeq(s, 1, Len(s) - 1))
    ELSE s

\* str.strip()
Strip(s) == RStrip(LStrip(s))

\* sep.join(parts)
RECURSIVE Join(_, _)
Join(parts, sep) ==
    IF parts = <<>> THEN <<>>
    ELSE IF Len(parts) = 1 THEN parts[1]
    ELSE parts[1] \o sep \o Join(Tail(parts), sep)

\* dict.get(key, default)
Get(d, key, default) == IF key \in DOMAIN d THEN d[key] ELSE default

(***************************************************************************)
(* RAGPipeline (rag_pipeline.py)                                           *)
(***************************************************************************)

\* default similarity_threshold 0.7, in twentieths
DefaultThreshold == 14

\* context_chunks[1][:300]
ExcerptLen == 300

NoInfoMsg == <<"No relevant information found in the documents.">>
TrainingMsg == <<"No relevant info available, retrieving answer from training data">>
FoundHdr == <<"Based on the documentation, here's what I found: \n\n">>
AdditionalHdr == <<"\n\n---\n\nAdditional relevant information:\n\n">>
Ellipsis == <<"...">>
ContextSep == <<"\n\n---\n\n">>

\* similarity = 1 - (distance / 2): distance in tenths, similarity in twentieths
Similarity(distance) == 20 - distance

\* the entry appended to sources for a kept candidate
SourceEntry(cand, similarity) ==
    [text |-> cand.doc,
     title |-> Get(cand.metadata, "title", "Unknown"),
     source |-> Get(cand.metadata, "source", "Unknown"),
     chunk_index |-> Get(cand.metadata, "chunk_index", 0),
     distance |-> cand.distance,
     similarity |-> similarity]

KeepAboveThresholdOnly(similarity, threshold, sources) == similarity >= threshold

KeepEvery(similarity, threshold, sources) == similarity >= threshold \/ Len(sources) >= 0

\* the condition of the if in the filter loop
KeepCandidate(similarity, threshold, sources) ==
    similarity >= threshold \/ Len(sources) = 0

\* the for loop over zip(documents, metadatas, distances)
RECURSIVE FilterLoop(_, _, _)
FilterLoop(results, threshold, acc) ==
    IF results = <<>> THEN acc
    ELSE LET cand == Head(results)
             similarity == Similarity(cand.distance)
             next == IF KeepCandidate(similarity, threshold, acc.sources)
                     THEN [sources |-> Append(acc.sources, SourceEntry(cand, similarity)),
                           context_chunks |-> Append(acc.context_chunks, cand.doc)]
                     ELSE acc
         IN FilterLoop(Tail(results), threshold, next)

\* _generate_answer_without_llm
GenerateAnswerWithoutLLM(context_chunks) ==
    IF context_chunks = <<>> THEN NoInfoMsg
    ELSE LET answer == FoundHdr \o context_chunks[1]
         IN IF Len(context_chunks) > 1
            THEN answer \o AdditionalHdr \o Take(context_chunks[2], ExcerptLen) \o Ellipsis
            ELSE answer

LLMErrorPropagates(context_chunks, calls) ==
    [raised |-> TRUE, answer |-> <<>>, llm_calls |-> calls]

FallbackDropsContext(context_chunks, calls) ==
    [raised |-> FALSE, answer |-> GenerateAnswerWithoutLLM(<<>>), llm_calls |-> calls]

RetryOnLLMError(context_chunks, calls) ==
    [raised |-> FALSE,
     answer |-> GenerateAnswerWithoutLLM(context_chunks),
     llm_calls |-> calls \o calls]

\* the except Exception branch of _generate_answer_with_llm
OnLLMError(context_chunks, calls) ==
    [raised |-> FALSE,
     answer |-> GenerateAnswerWithoutLLM(context_chunks),
     llm_calls |-> calls]

LLMAlwaysCalled(query, context_chunks, reply) ==
    LET calls == <<[context |-> Join(context_chunks, ContextSep), question |-> query]>>
    IN IF reply.kind = "ok"
       THEN [raised |-> FALSE, answer |-> Strip(reply.content), llm_calls |-> calls]
       ELSE OnLLMError(context_chunks, calls)

\* _generate_answer_with_llm; reply is what the client does when it is called:
\* "ok" returns a response with the given content, "raise" raises in create(),
\* "no_content" returns a response whose message content is None
GenerateAnswerWithLLM(query, context_chunks, reply) ==
    IF context_chunks = <<>>
    THEN [raised |-> FALSE, answer |-> TrainingMsg, llm_calls |-> <<>>]
    ELSE LET calls == <<[context |-> Join(context_chunks, ContextSep),
                         question |-> query]>>
         IN IF reply.kind = "ok"
            THEN [raised |-> FALSE, answer |-> Strip(reply.content), llm_calls |-> calls]
            ELSE OnLLMError(context_chunks, calls)

\* RAGPipeline.query as a function of the pipeline, the collaborators and the
\* arguments; results is what search_by_text does: it raises ("error") or returns
\* the rows of documents, metadatas and distances ("ok")
QueryOutcome(useLLM, reply, results, args) ==
    IF results.status = "error"
    THEN [status |-> "raised", error |-> "retrieval", query |-> args.query_text,
          answer |-> <<>>, sources |-> <<>>, context_chunks |-> <<>>,
          llm_calls |-> <<>>]
    ELSE LET kept == FilterLoop(results.rows, args.similarity_threshold,
                                [sources |-> <<>>, context_chunks |-> <<>>])
             gen == IF useLLM
                    THEN GenerateAnswerWithLLM(args.query_text, kept.context_chunks, reply)
                    ELSE [raised |-> FALSE,
                          answer |-> GenerateAnswerWithoutLLM(kept.context_chunks),
                          llm_calls |-> <<>>]
         IN [status |-> IF gen.raised THEN "raised" ELSE "returned",
             error |-> IF gen.raised THEN "llm" ELSE "none",
             query |-> args.query_text,
             answer |-> gen.answer,
             sources |-> kept.sources,
             context_chunks |-> kept.context_chunks,
             llm_calls |-> gen.llm_calls]

PrependResult(results, result) == <<result>> \o results

\* results.append(result) in batch_query
AppendResult(results, result) == Append(results, result)

\* the for loop of batch_query: each query() call uses the default
\* similarity_threshold; acc.searched lists the query texts handed to
\* search_by_text so far, in call order; an exception ends the loop
RECURSIVE QueryLoop(_, _, _, _, _, _)
QueryLoop(useLLM, reply, table, top_k, queries, acc) ==
    IF queries = <<>> THEN acc
    ELSE LET query == Head(queries)
             result == QueryOutcome(useLLM, reply, table[query],
                                    [query_text |-> query, top_k |-> top_k,
                                     similarity_threshold |-> DefaultThreshold])
             called == [acc EXCEPT !.searched = Append(acc.searched, query)]
         IN IF result.status = "raised"
            THEN [called EXCEPT !.raised = TRUE]
            ELSE QueryLoop(useLLM, reply, table, top_k, Tail(queries),
                           [called EXCEPT
                               !.results = AppendResult(acc.results, result)])

\* batch_query
BatchOutcome(useLLM, reply, table, args) ==
    LET acc == QueryLoop(useLLM, reply, table, args.top_k, args.queries,
                         [results |-> <<>>, searched |-> <<>>, raised |-> FALSE])
    IN [status |-> IF acc.raised THEN "raised" ELSE "returned",
        results |-> IF acc.raised THEN <<>> ELSE acc.results,
        searched |-> acc.searched]

\* ---- bounds and input sets of the query specification ----
MaxCandidates == 2
MaxTopK == 2

LongDoc == [i \in 1..(ExcerptLen + 1) |-> "x"]
Docs == {<<"a">>, <<"b", "c">>, LongDoc}
Metadatas == {[title |-> "Caching", source |-> "caching.md", chunk_index |-> 1],
              <<>>}
Distances == {0, 6, 8}
Thresholds == {DefaultThreshold, 21}
Queries == {"q1", "q2"}
Replies == {[kind |-> "raise"], [kind |-> "no_content"],
            [kind |-> "ok", content |-> <<" ", "r", "\n">>]}

Candidates == [doc : Docs, metadata : Metadatas, distance : Distances]

\* the index returns its candidates in ascending distance
Ascending(results) ==
    \A i \in 1..(Len(results) - 1) : results[i].distance <= results[i + 1].distance

ResultLists(k) ==
    {r \in UNION {[1..n -> Candidates] : n \in 0..k} : Ascending(r)}

NoCall == [status |-> "none"]

\* RAGPipeline.__init__ succeeded (use_llm implies a client) and a query call
\* is about to be made; the chunker and the store are not in use
QInit ==
    /\ use_llm \in BOOLEAN
    /\ llm_client \in {"None", "client"}
    /\ use_llm => llm_client # "None"
    /\ llm_reply \in Replies
    /\ query_args \in [query_text : Queries, top_k : 1..MaxTopK,
                       similarity_threshold : Thresholds]
    /\ search_results \in
          {[status |-> "error"]} \cup
          {[status |-> "ok", rows |-> r] :
              r \in ResultLists(IF query_args.top_k < MaxCandidates
                                THEN query_args.top_k ELSE MaxCandidates)}
    /\ query_result = NoCall
    /\ chunker = NoCall /\ chunk_args = NoCall /\ chunk_result = NoCall
    /\ collection = {} /\ chroma = NoCall
    /\ add_args = NoCall /\ add_result = NoCall
    /\ search_table = NoCall /\ batch_args = NoCall /\ batch_result = NoCall
    /\ overlap_args = NoCall /\ overlap_result = NoCall

\* RAGPipeline.query
Query ==
    /\ query_result = NoCall
    /\ query_args # NoCall
    /\ query_result' = QueryOutcome(use_llm, llm_reply, search_results, query_args)
    /\ UNCHANGED <<use_llm, llm_client, search_results, llm_reply, query_args>>
    /\ UNCHANGED <<cvars, svars, bvars, ovars>>

SpecQuery == QInit /\ [][Query]_vars

\* ---- bounds and input sets of the batch specification ----
MaxQueries == 3

QueryLists == UNION {[1..n -> Queries] : n \in 0..MaxQueries}
BatchCandidates == [doc : {<<"a">>}, metadata : {<<>>}, distance : {0, 8}]

\* what search_by_text can do for one query text with the given top_k
SearchOutcomes(top_k) ==
    {[status |-> "error"]} \cup
    {[status |-> "ok", rows |-> r] :
        r \in {l \in UNION {[1..n -> BatchCandidates] :
                              n \in 0..(IF top_k < MaxCandidates
                                        THEN top_k ELSE MaxCandidates)} :
                  Ascending(l)}}

\* RAGPipeline.__init__ succeeded and a batch_query call is about to be made;
\* the index answers each query text the same way whenever it is asked.  The
\* chunker and the store are not in use.
BInit ==
    /\ use_llm \in BOOLEAN
    /\ llm_client \in {"None", "client"}
    /\ use_llm => llm_client # "None"
    /\ llm_reply \in Replies
    /\ batch_args \in [queries : QueryLists, top_k : 1..MaxTopK]
    /\ search_table \in [Queries -> SearchOutcomes(batch_args.top_k)]
    /\ batch_result = NoCall
    /\ query_args = NoCall /\ search_results = [status |-> "error"]
    /\ query_result = NoCall
    /\ chunker = NoCall /\ chunk_args = NoCall /\ chunk_result = NoCall
    /\ collection = {} /\ chroma = NoCall
    /\ add_args = NoCall /\ add_result = NoCall
    /\ overlap_args = NoCall /\ overlap_result = NoCall

\* RAGPipeline.batch_query
BatchQuery ==
    /\ batch_result = NoCall
    /\ batch_args # NoCall
    /\ batch_result' = BatchOutcome(use_llm, llm_reply, search_table, batch_args)
    /\ UNCHANGED <<search_table, batch_args>>
    /\ UNCHANGED <<qvars, cvars, svars, ovars>>

SpecBatch == BInit /\ [][BatchQuery]_vars

(***************************************************************************)
(* TextChunker (text_chunker.py)                                           *)
(***************************************************************************)

\* str.split(sep) for a non-empty sep; cur is the piece being collected
RECURSIVE SplitFrom(_, _, _)
SplitFrom(s, sep, cur) ==
    IF s = <<>> THEN <<cur>>
    ELSE IF Len(s) >= Len(sep) /\ SubSeq(s, 1, Len(sep)) = sep
    THEN <<cur>> \o SplitFrom(Drop(s, Len(sep)), sep, <<>>)
    ELSE SplitFrom(Tail(s), sep, Append(cur, s[1]))

Split(s, sep) == SplitFrom(s, sep, <<>>)

\* TextChunker.__init__
NewChunker(chunk_size, chunk_overlap, separator) ==
    [chunk_size |-> chunk_size,
     chunk_overlap |-> chunk_overlap,
     separator |-> separator,
     chunk_size_chars |-> chunk_size * 4,
     chunk_overlap_chars |-> chunk_overlap * 4]

\* the characters [.!?] of the pattern in _get_overlap
SentenceEnd == {".", "!", "?"}

\* the indices where a match of [.!?]\s+ starts
BoundaryStarts(s) ==
    {i \in 1..(Len(s) - 1) : s[i] \in SentenceEnd /\ s[i + 1] \in Whitespace}

\* re.split(r'[.!?]\s+', s)[-1] when there is a match: what follows the last match
AfterLastBoundary(s) ==
    LET last == CHOOSE i \in BoundaryStarts(s) : \A j \in BoundaryStarts(s) : j <= i
    IN LStrip(Drop(s, last))

\* _get_overlap(self, text)
GetOverlap(ch, text) ==
    IF Len(text) <= ch.chunk_overlap_chars THEN text
    ELSE LET overlap == IF ch.chunk_overlap_chars = 0 THEN text
                        ELSE Drop(text, Len(text) - ch.chunk_overlap_chars)
         IN IF BoundaryStarts(overlap) # {} THEN AfterLastBoundary(overlap)
            ELSE overlap

\* the call self._get_overlap(section, current_chunk) in chunk_text: _get_overlap
\* is declared with one parameter besides self, so the call raises TypeError
GetOverlapCall(ch, section, current_chunk) ==
    [raised |-> TRUE, value |-> <<>>]

MetadataWins(text, metadata, index) ==
    [text |-> Strip(text),
     metadata |-> [k \in DOMAIN metadata \cup {"chunk_index", "chunk_size"} |->
                      IF k \in DOMAIN metadata THEN metadata[k]
                      ELSE IF k = "chunk_index" THEN index ELSE Len(text)],
     chunk_index |-> index]

\* _create_chunk
CreateChunk(text, metadata, index) ==
    [text |-> Strip(text),
     metadata |-> [k \in DOMAIN metadata \cup {"chunk_index", "chunk_size"} |->
                      IF k = "chunk_index" THEN index
                      ELSE IF k = "chunk_size" THEN Len(text)
                      ELSE metadata[k]],
     chunk_index |-> index]

\* chunk_index += 1
NextIndex(chunk_index) == chunk_index + 1

\* the condition of the if that closes the buffer
MustClose(ch, current_chunk, section) ==
    Len(current_chunk) + Len(section) > ch.chunk_size_chars /\ current_chunk # <<>>

\* one iteration of the for loop of chunk_text; st holds the locals chunks,
\* current_chunk and chunk_index, whether an exception was raised, and closed:
\* one entry per time the buffer was closed by the size test
SectionStep(ch, metadata, st, raw) ==
    LET section == Strip(raw)
    IN IF section = <<>> THEN st
       ELSE IF MustClose(ch, st.current_chunk, section)
       THEN LET overlap == GetOverlapCall(ch, section, st.current_chunk)
                appended == Append(st.chunks,
                                   CreateChunk(st.current_chunk, metadata, st.chunk_index))
                event == [buffer |-> st.current_chunk, section |-> section,
                          index |-> st.chunk_index]
            IN IF overlap.raised
               THEN [st EXCEPT !.chunks = appended,
                               !.chunk_index = NextIndex(st.chunk_index),
                               !.raised = TRUE,
                               !.closed = Append(st.closed, event)]
               ELSE [st EXCEPT !.chunks = appended,
                               !.chunk_index = NextIndex(st.chunk_index),
                               !.current_chunk = overlap.value \o section,
                               !.closed = Append(st.closed, event)]
       ELSE IF st.current_chunk # <<>>
       THEN [st EXCEPT !.current_chunk = st.current_chunk \o ch.separator \o section]
       ELSE [st EXCEPT !.current_chunk = section]

\* the for loop of chunk_text; an exception ends it
RECURSIVE SectionLoop(_, _, _, _)
SectionLoop(ch, metadata, st, sections) ==
    IF sections = <<>> \/ st.raised THEN st
    ELSE SectionLoop(ch, metadata, SectionStep(ch, metadata, st, Head(sections)),
                     Tail(sections))

\* chunk_text: the outcome and the locals at the return or at the raise
ChunkText(ch, text, metadata) ==
    LET st == SectionLoop(ch, metadata,
                          [chunks |-> <<>>, current_chunk |-> <<>>, chunk_index |-> 0,
                           raised |-> FALSE, closed |-> <<>>],
                          Split(text, ch.separator))
    IN IF st.raised
       THEN [status |-> "raised", chunks |-> st.chunks, chunk_index |-> st.chunk_index,
             current_chunk |-> st.current_chunk, closed |-> st.closed]
       ELSE [status |-> "returned",
             chunks |-> IF st.current_chunk # <<>>
                        THEN Append(st.chunks,
                                    CreateChunk(st.current_chunk, metadata, st.chunk_index))
                        ELSE st.chunks,
             chunk_index |-> st.chunk_index,
             current_chunk |-> st.current_chunk, closed |-> st.closed]

\* ---- bounds and input sets of the chunker specification ----
MaxTextLen == 7
MaxChunkSize == 2

TextChars == {"a", "b", "\n"}
Texts == UNION {[1..n -> TextChars] : n \in 0..MaxTextLen}
ChunkOverlaps == {0, 1}
Separators == {<<"\n", "\n">>, <<"\n">>}
\* metadata=None becomes {}; a document's metadata may carry any keys
ChunkMetadatas == {<<>>, [title |-> "T", chunk_index |-> 7]}

\* a TextChunker was constructed and a chunk_text call is about to be made; the
\* pipeline and the store are not in use
CInit ==
    /\ chunker \in {NewChunker(cs, co, sep) :
                       cs \in 1..MaxChunkSize, co \in ChunkOverlaps, sep \in Separators}
    /\ chunk_args \in [text : Texts, metadata : ChunkMetadatas]
    /\ chunk_result = NoCall
    /\ use_llm = FALSE /\ llm_client = "None" /\ llm_reply = [kind |-> "raise"]
    /\ query_args = NoCall /\ search_results = [status |-> "error"]
    /\ query_result = NoCall
    /\ collection = {} /\ chroma = NoCall
    /\ add_args = NoCall /\ add_result = NoCall
    /\ search_table = NoCall /\ batch_args = NoCall /\ batch_result = NoCall
    /\ overlap_args = NoCall /\ overlap_result = NoCall

\* TextChunker.chunk_text
ChunkTextCall ==
    /\ chunk_result = NoCall
    /\ chunk_args # NoCall
    /\ chunk_result' = ChunkText(chunker, chunk_args.text, chunk_args.metadata)
    /\ UNCHANGED <<chunker, chunk_args>>
    /\ UNCHANGED <<qvars, svars, bvars, ovars>>

SpecChunk == CInit /\ [][ChunkTextCall]_vars

\* ---- bounds and input sets of the overlap specification ----
MaxBufferLen == 6

BufferChars == {"a", ".", " "}
Buffers == UNION {[1..n -> BufferChars] : n \in 0..MaxBufferLen}

\* a TextChunker was constructed and _get_overlap is about to be called with a
\* prior buffer; the pipeline and the store are not in use
OInit ==
    /\ chunker \in {NewChunker(cs, co, sep) :
                       cs \in 1..MaxChunkSize, co \in ChunkOverlaps, sep \in Separators}
    /\ overlap_args \in [text : Buffers]
    /\ overlap_result = NoCall
    /\ chunk_args = NoCall /\ chunk_result = NoCall
    /\ use_llm = FALSE /\ llm_client = "None" /\ llm_reply = [kind |-> "raise"]
    /\ query_args = NoCall /\ search_results = [status |-> "error"]
    /\ query_result = NoCall
    /\ collection = {} /\ chroma = NoCall
    /\ add_args = NoCall /\ add_result = NoCall
    /\ search_table = NoCall /\ batch_args = NoCall /\ batch_result = NoCall

\* TextChunker._get_overlap
GetOverlapCalled ==
    /\ overlap_result = NoCall
    /\ overlap_args # NoCall
    /\ overlap_result' = [status |-> "returned",
                          value |-> GetOverlap(chunker, overlap_args.text)]
    /\ UNCHANGED overlap_args
    /\ UNCHANGED <<qvars, cvars, svars, bvars>>

SpecOverlap == OInit /\ [][GetOverlapCalled]_vars

(***************************************************************************)
(* VectorStore (vector_store.py)                                           *)
(***************************************************************************)

\* batch_size = 100
BatchSize == 100

UnknownTitle == <<"U", "n", "k", "n", "o", "w", "n">>

Min(a, b) == IF a < b THEN a ELSE b

\* str(n) for n >= 0
RECURSIVE ToStr(_)
ToStr(n) ==
    LET digit == <<"0", "1", "2", "3", "4", "5", "6", "7", "8", "9">>[(n % 10) + 1]
    IN IF n < 10 THEN <<digit>> ELSE ToStr(n \div 10) \o <<digit>>

\* str.replace(old, new) for one-character old and new
Replace(s, old, new) == [k \in 1..Len(s) |-> IF s[k] = old THEN new ELSE s[k]]

\* chunk_id for the chunk at position i (counted from 0) of the call
ChunkId(chunk, i) ==
    LET raw == Get(chunk.metadata, "title", UnknownTitle) \o <<"_">>
               \o ToStr(chunk.chunk_index) \o <<"_">> \o ToStr(i)
    IN Replace(Replace(raw, " ", "_"), "/", "_")

\* the id, document, metadata and embedding appended for one (chunk, embedding)
Row(chunk, embedding, i) ==
    [id |-> ChunkId(chunk, i),
     document |-> chunk.text,
     metadata |-> [title |-> Get(chunk.metadata, "title", UnknownTitle),
                   source |-> Get(chunk.metadata, "source", "Unknown"),
                   chunk_index |-> chunk.chunk_index,
                   chunk_size |-> Len(chunk.text)],
     embedding |-> embedding]

\* the first for loop of add_chunks: zip stops at the shorter argument
Rows(chunks, embeddings) ==
    [k \in 1..Min(Len(chunks), Len(embeddings)) |-> Row(chunks[k], embeddings[k], k - 1)]

NoLengthCheck(chunks, embeddings) == FALSE

\* the test that raises ValueError
LengthMismatch(chunks, embeddings) == Len(chunks) # Len(embeddings)

BatchEndOffByOne(start, n) == Min(start + BatchSize + 1, n)

\* batch_end = min(i + batch_size, len(ids)), positions counted from 0
BatchEnd(start, n) == Min(start + BatchSize, n)

\* the ids stored in the collection
StoredIds(coll) == {r.id : r \in coll}

\* the collection after it took the records of a batch whose id is not yet stored
Stored(coll, batch) ==
    LET have == StoredIds(coll)
    IN coll \cup {batch[k] : k \in {j \in 1..Len(batch) : batch[j].id \notin have}}

\* collection.add of ChromaDB for the call-th batch of an add_chunks call.  The
\* call fails when the environment makes it fail (having stored env.keeps of the
\* batch's records) and when two records of the batch share an id.  An id that
\* is already stored is never overwritten: the library either skips that record
\* or rejects the batch, by its version.
CollectionAdd(coll, batch, env, call) ==
    IF env.fail_at = call
    THEN [raised |-> TRUE, collection |-> Stored(coll, Take(batch, env.keeps))]
    ELSE IF Cardinality({batch[k].id : k \in 1..Len(batch)}) # Len(batch)
    THEN [raised |-> TRUE, collection |-> coll]
    ELSE IF env.on_existing = "reject" /\ StoredIds(coll) \cap {batch[k].id : k \in 1..Len(batch)} # {}
    THEN [raised |-> TRUE, collection |-> coll]
    ELSE [raised |-> FALSE, collection |-> Stored(coll, batch)]

\* the second for loop of add_chunks, from position start (counted from 0);
\* acc.submitted lists the ids of every batch handed to collection.add
RECURSIVE BatchLoop(_, _, _, _)
BatchLoop(rows, env, start, acc) ==
    IF start >= Len(rows) THEN acc
    ELSE LET batch_end == BatchEnd(start, Len(rows))
             batch == SubSeq(rows, start + 1, batch_end)
             res == CollectionAdd(acc.collection, batch, env, Len(acc.submitted) + 1)
             next == [acc EXCEPT
                         !.collection = res.collection,
                         !.submitted = Append(acc.submitted,
                                              [k \in 1..Len(batch) |-> batch[k].id]),
                         !.raised = res.raised]
         IN IF res.raised THEN next
            ELSE BatchLoop(rows, env, start + BatchSize, next)

\* add_chunks: the outcome and the collection it leaves
AddChunksOutcome(coll, chunks, embeddings, env) ==
    IF LengthMismatch(chunks, embeddings)
    THEN [status |-> "raised", error |-> "ValueError", collection |-> coll,
          submitted |-> <<>>]
    ELSE LET acc == BatchLoop(Rows(chunks, embeddings), env, 0,
                              [collection |-> coll, submitted |-> <<>>,
                               raised |-> FALSE])
         IN [status |-> IF acc.raised THEN "raised" ELSE "returned",
             error |-> IF acc.raised THEN "collection.add" ELSE "none",
             collection |-> acc.collection,
             submitted |-> acc.submitted]

\* ---- bounds and input sets of the store specification ----
MaxChunks == 201

ChunkCounts ==
    {n \in 0..MaxChunks : n <= 2 \/ n >= MaxChunks - 1 \/ n % BatchSize \in {0, 1}}
StoreMetadatas == {[title |-> <<"A", " ", "B">>, source |-> "a.md"],
                   [title |-> <<"A", "/", "B">>, source |-> "b.md"],
                   <<>>}
Variants == {1, 2}

\* n chunks of one document, as chunk_text numbers them
ChunkList(n, metadata, v) ==
    [k \in 1..n |-> [text |-> IF v = 1 THEN <<"x">> ELSE <<"y", "y">>,
                     metadata |-> metadata,
                     chunk_index |-> k - 1]]

\* m embeddings, after tolist()
EmbeddingList(m, v) == [k \in 1..m |-> <<v, k % 2>>]

\* what the persistent collection holds when the VectorStore is constructed:
\* nothing, or what an earlier add_chunks call left in it
PersistedCollections ==
    {AddChunksOutcome({}, ChunkList(n, md, v), EmbeddingList(n, v),
                      [on_existing |-> "skip", keeps |-> 0, fail_at |-> 0]).collection :
        n \in {0, 2, MaxChunks}, md \in StoreMetadatas, v \in Variants}

\* the number of collection.add calls that n records take
NumBatches(n) == (n + BatchSize - 1) \div BatchSize

\* VectorStore.__init__ opened the persistent collection, the library's behaviour
\* is fixed, and an add_chunks call is about to be made: d is the excess of
\* embeddings over chunks, fail_at the collection.add call of the add_chunks call
\* that fails (0: none).  The pipeline and the chunker are not in use.
SInit ==
    /\ collection \in PersistedCollections
    /\ \E n \in ChunkCounts, d \in {0, 1}, md \in StoreMetadatas, v \in Variants :
          /\ add_args = [chunks |-> ChunkList(n, md, v),
                         embeddings |-> EmbeddingList(n + d, v)]
          /\ chroma \in [on_existing : {"skip", "reject"}, keeps : {0, 1},
                         fail_at : 0..(IF d = 0 THEN NumBatches(n) ELSE 0)]
    /\ add_result = NoCall
    /\ use_llm = FALSE /\ llm_client = "None" /\ llm_reply = [kind |-> "raise"]
    /\ query_args = NoCall /\ search_results = [status |-> "error"]
    /\ query_result = NoCall
    /\ chunker = NoCall /\ chunk_args = NoCall /\ chunk_result = NoCall
    /\ search_table = NoCall /\ batch_args = NoCall /\ batch_result = NoCall
    /\ overlap_args = NoCall /\ overlap_result = NoCall

\* VectorStore.add_chunks
AddChunks ==
    /\ add_result = NoCall
    /\ add_args # NoCall
    /\ \E out \in {AddChunksOutcome(collection, add_args.chunks, add_args.embeddings,
                                    chroma)} :
          /\ collection' = out.collection
          /\ add_result' = [status |-> out.status, error |-> out.error,
                            submitted |-> out.submitted, before |-> collection]
    /\ UNCHANGED <<chroma, add_args>>
    /\ UNCHANGED <<qvars, cvars, bvars, ovars>>

SpecStore == SInit /\ [][AddChunks]_vars

(***************************************************************************)
(* Claims about RAGPipeline.query                                          *)
(***************************************************************************)

QueryDone == query_result # NoCall
RetrievalOk == search_results.status = "ok"
Retrieved == search_results.rows
LLMFails == llm_reply.kind # "ok"
AllBelowThreshold ==
    \A i \in 1..Len(Retrieved) :
        Similarity(Retrieved[i].distance) < query_args.similarity_threshold

\* the extractive answer of section 4.4: the first chunk verbatim and, if there
\* is a second one, an excerpt of at most 300 characters of it
ExtractiveAnswer(chunks) ==
    IF Len(chunks) = 0 THEN NoInfoMsg
    ELSE IF Len(chunks) = 1 THEN FoundHdr \o chunks[1]
    ELSE FoundHdr \o chunks[1] \o AdditionalHdr
         \o SubSeq(chunks[2], 1, IF Len(chunks[2]) > 300 THEN 300 ELSE Len(chunks[2]))
         \o Ellipsis

\* C1: when retrieval returns at least one candidate and every candidate's
\* similarity is below the threshold, sources has exactly one entry, the first
\* (lowest-distance) candidate returned by the index.
C1_AllBelowKeepsBest ==
    (QueryDone /\ RetrievalOk /\ Len(Retrieved) >= 1 /\ AllBelowThreshold) =>
        /\ query_result.status = "returned"
        /\ Len(query_result.sources) = 1
        /\ query_result.sources[1].text = Retrieved[1].doc
        /\ query_result.sources[1].distance = Retrieved[1].distance
        /\ \A i \in 1..Len(Retrieved) : query_result.sources[1].distance <= Retrieved[i].distance
        /\ query_result.context_chunks = <<Retrieved[1].doc>>

C1_Witness ==
    /\ QueryDone /\ RetrievalOk /\ Len(Retrieved) >= 2 /\ AllBelowThreshold
    /\ Retrieved[1].distance < Retrieved[2].distance
    /\ Len(query_result.sources) = 1

\* C2 as stated: with an LLM client that fails on every call, query() with
\* use_llm=True returns the same answer text as a pipeline with use_llm=False
\* given the same candidates and threshold, for any retrieval outcome
\* including zero candidates.
C2_Original ==
    (QueryDone /\ RetrievalOk /\ use_llm /\ LLMFails) =>
        /\ query_result.status = "returned"
        /\ query_result.answer =
              QueryOutcome(FALSE, llm_reply, search_results, query_args).answer

\* C2 amended: the same, for any retrieval outcome with at least one candidate.
C2_FallbackSameAnswer ==
    (QueryDone /\ RetrievalOk /\ use_llm /\ LLMFails /\ Len(Retrieved) >= 1) =>
        /\ query_result.status = "returned"
        /\ query_result.answer =
              QueryOutcome(FALSE, llm_reply, search_results, query_args).answer

C2_Witness ==
    /\ QueryDone /\ RetrievalOk /\ use_llm /\ LLMFails
    /\ Len(query_result.context_chunks) = 2
    /\ Len(query_result.llm_calls) = 1
    /\ query_result.status = "returned"

\* C3: a failure of the LLM collaborator during query() is never raised to the
\* caller: query() returns a RAGResult whose answer is the extractive answer
\* built from the kept context chunks.
C3_LLMFailureNotRaised ==
    (QueryDone /\ RetrievalOk /\ use_llm /\ LLMFails
        /\ query_result.llm_calls # <<>>) =>
        /\ query_result.status = "returned"
        /\ query_result.answer = ExtractiveAnswer(query_result.context_chunks)

C3_Witness ==
    /\ QueryDone /\ RetrievalOk /\ use_llm
    /\ llm_reply.kind = "raise"
    /\ query_result.llm_calls # <<>>
    /\ query_result.status = "returned"
    /\ Len(query_result.context_chunks) = 2
    /\ Len(query_result.context_chunks[2]) > ExcerptLen

\* C4 as stated: when retrieval returns zero candidates, sources is empty and
\* the answer is the fixed 'no relevant information' text, whether use_llm is
\* True or False.
C4_Original ==
    (QueryDone /\ RetrievalOk /\ Retrieved = <<>>) =>
        /\ query_result.status = "returned"
        /\ query_result.sources = <<>>
        /\ query_result.answer = NoInfoMsg

\* C4 amended: when retrieval returns zero candidates, sources is empty; the
\* answer is the fixed 'no relevant information' text when use_llm is False and
\* the fixed 'No relevant info available, retrieving answer from training data'
\* text, with no LLM call, when use_llm is True.
C4_ZeroCandidates ==
    (QueryDone /\ RetrievalOk /\ Retrieved = <<>>) =>
        /\ query_result.status = "returned"
        /\ query_result.sources = <<>>
        /\ query_result.llm_calls = <<>>
        /\ query_result.answer = IF use_llm THEN TrainingMsg ELSE NoInfoMsg

C4_Witness ==
    /\ QueryDone /\ RetrievalOk /\ Retrieved = <<>> /\ use_llm
    /\ llm_reply.kind = "ok"
    /\ query_result.answer = TrainingMsg

\* the sets of positions of the retrieved rows, as ascending sequences
RECURSIVE Ascend(_, _)
Ascend(S, n) ==
    IF n = 0 THEN <<>>
    ELSE IF n \in S THEN Append(Ascend(S, n - 1), n) ELSE Ascend(S, n - 1)

\* C12: a retrieved candidate at position i is kept in sources if and only if
\* its similarity is >= similarity_threshold or no candidate before it was kept;
\* sources is a subsequence of the candidates in the index's return order, and
\* context_chunks has the same length as sources with context_chunks[j] equal to
\* sources[j]['text'].
C12_KeptCandidates ==
    (QueryDone /\ RetrievalOk) =>
        /\ \E K \in SUBSET (1..Len(Retrieved)) :
              LET pos == Ascend(K, Len(Retrieved))
              IN /\ \A i \in 1..Len(Retrieved) :
                       i \in K <=>
                          \/ 20 - Retrieved[i].distance
                                >= query_args.similarity_threshold
                          \/ \A j \in 1..(i - 1) : j \notin K
                 /\ Len(query_result.sources) = Len(pos)
                 /\ \A j \in 1..Len(pos) :
                       /\ query_result.sources[j].text = Retrieved[pos[j]].doc
                       /\ query_result.sources[j].distance = Retrieved[pos[j]].distance
                       /\ query_result.sources[j].similarity
                             = 20 - Retrieved[pos[j]].distance
        /\ Len(query_result.context_chunks) = Len(query_result.sources)
        /\ \A j \in 1..Len(query_result.sources) :
              query_result.context_chunks[j] = query_result.sources[j].text

C12_Witness ==
    /\ QueryDone /\ RetrievalOk
    /\ Len(Retrieved) = 2
    /\ Similarity(Retrieved[1].distance) >= query_args.similarity_threshold
    /\ Similarity(Retrieved[2].distance) < query_args.similarity_threshold
    /\ Len(query_result.sources) = 1
    /\ query_result.context_chunks = <<Retrieved[1].doc>>

\* C14: within one query() call the LLM collaborator is invoked at most once,
\* only after retrieval and filtering have completed (its prompt carries every
\* kept context chunk), and it is never invoked when use_llm is False or when no
\* context chunk was kept.
C14_LLMCalledOnce ==
    QueryDone =>
        /\ Len(query_result.llm_calls) <= 1
        /\ query_result.llm_calls # <<>> =>
              /\ use_llm
              /\ RetrievalOk
              /\ query_result.context_chunks # <<>>
              /\ query_result.llm_calls[1].context =
                    Join(query_result.context_chunks, ContextSep)
              /\ query_result.llm_calls[1].question = query_args.query_text
        /\ (RetrievalOk /\ use_llm /\ query_result.context_chunks # <<>>) =>
              Len(query_result.llm_calls) = 1

C14_Witness ==
    /\ QueryDone /\ RetrievalOk /\ use_llm
    /\ Len(query_result.context_chunks) = 2
    /\ Len(query_result.llm_calls) = 1
    /\ llm_reply.kind = "raise"


(***************************************************************************)
(* Claims about RAGPipeline.batch_query                                    *)
(***************************************************************************)

BatchDone == batch_result # NoCall
BatchReturned == BatchDone /\ batch_result.status = "returned"

\* C11: batch_query hands the queries to retrieval one at a time in input
\* order; when it returns, the list has exactly one result per query and
\* result i carries queries[i], duplicates and the empty list included.  It
\* returns whenever every retrieval succeeds; it raises only when the
\* retrieval of the last query it reached failed.
C11_BatchInOrder ==
    BatchDone =>
        LET queries == batch_args.queries
            searched == batch_result.searched
        IN /\ Len(searched) <= Len(queries)
           /\ \A i \in 1..Len(searched) : searched[i] = queries[i]
           /\ batch_result.status = "returned" =>
                 /\ Len(searched) = Len(queries)
                 /\ Len(batch_result.results) = Len(queries)
                 /\ \A i \in 1..Len(queries) :
                       /\ batch_result.results[i].status = "returned"
                       /\ batch_result.results[i].query = queries[i]
           /\ batch_result.status = "raised" =>
                 /\ searched # <<>>
                 /\ search_table[searched[Len(searched)]].status = "error"
                 /\ \A i \in 1..(Len(searched) - 1) :
                       search_table[searched[i]].status = "ok"
           /\ (\A i \in 1..Len(queries) : search_table[queries[i]].status = "ok")
                 => batch_result.status = "returned"

\* a returned batch of three queries with a duplicate and two distinct texts
C11_Witness ==
    /\ BatchReturned
    /\ Len(batch_args.queries) = 3
    /\ batch_args.queries[1] # batch_args.queries[2]
    /\ batch_args.queries[1] = batch_args.queries[3]
    /\ Len(batch_result.results) = 3

(***************************************************************************)
(* Claims about TextChunker.chunk_text                                     *)
(***************************************************************************)

ChunkDone == chunk_result # NoCall
TargetSizeChars == chunker.chunk_size_chars

\* the trimmed, non-empty sections of the input, in input order
RECURSIVE NonEmpty(_)
NonEmpty(raws) ==
    IF raws = <<>> THEN <<>>
    ELSE IF Strip(Head(raws)) = <<>> THEN NonEmpty(Tail(raws))
    ELSE <<Strip(Head(raws))>> \o NonEmpty(Tail(raws))

InputSections == NonEmpty(Split(chunk_args.text, chunker.separator))

IsPrefix(p, s) == Len(p) <= Len(s) /\ SubSeq(s, 1, Len(p)) = p

\* C5: when a non-empty trimmed section arrives while the buffer is non-empty
\* and len(buffer) + len(section) > targetSizeChars, the buffer is closed as a
\* chunk with the current chunk index, the index is incremented, processing
\* continues with a new buffer equal to the overlap fragment of the closed
\* buffer followed by the section, and chunk_text returns the full chunk list.
C5_Original ==
    (ChunkDone /\ chunk_result.closed # <<>>) =>
        /\ chunk_result.status = "returned"
        /\ Len(chunk_result.chunks) > Len(chunk_result.closed)
        /\ \A k \in 1..Len(chunk_result.closed) :
              LET ev == chunk_result.closed[k]
              IN /\ chunk_result.chunks[k].text = ev.buffer
                 /\ chunk_result.chunks[k].chunk_index = ev.index
                 /\ chunk_result.chunks[k + 1].chunk_index = ev.index + 1
                 /\ IsPrefix(LStrip(GetOverlap(chunker, ev.buffer) \o ev.section),
                             chunk_result.chunks[k + 1].text)

\* C6: for any input text longer than targetSizeChars, chunk_text returns chunks
\* of which every one other than the last has len(text) <= targetSizeChars,
\* unless a single section of the input is itself longer than targetSizeChars.
C6_Original ==
    (/\ ChunkDone
     /\ Len(chunk_args.text) > TargetSizeChars
     /\ \A i \in 1..Len(InputSections) : Len(InputSections[i]) <= TargetSizeChars) =>
        /\ chunk_result.status = "returned"
        /\ \A i \in 1..(Len(chunk_result.chunks) - 1) :
              Len(chunk_result.chunks[i].text) <= TargetSizeChars

OverlapDone == overlap_result # NoCall
IsSuffix(p, s) == Len(p) <= Len(s) /\ SubSeq(s, Len(s) - Len(p) + 1, Len(s)) = p

\* C13 as stated: for any prior buffer and any chunk_overlap >= 0, 0 included,
\* the fragment returned by _get_overlap is a suffix of the buffer of length at
\* most chunk_overlap * 4
C13_Original ==
    OverlapDone =>
        /\ IsSuffix(overlap_result.value, overlap_args.text)
        /\ Len(overlap_result.value) <= chunker.chunk_overlap * 4

(***************************************************************************)
(* Claims about VectorStore.add_chunks                                     *)
(***************************************************************************)

AddDone == add_result # NoCall
NumChunks == Len(add_args.chunks)
SameLengths == Len(add_args.chunks) = Len(add_args.embeddings)

\* the ids of the call's chunks, in input order
InputIds == [k \in 1..NumChunks |-> ChunkId(add_args.chunks[k], k - 1)]

RECURSIVE Flatten(_)
Flatten(seqs) == IF seqs = <<>> THEN <<>> ELSE Head(seqs) \o Flatten(Tail(seqs))

\* C8: add_chunks called with len(chunks) != len(embeddings) fails with an error
\* before any record is submitted: the index contents are the same after the
\* failed call as before it.
C8_MismatchLeavesIndex ==
    (AddDone /\ ~SameLengths) =>
        /\ add_result.status = "raised"
        /\ add_result.error = "ValueError"
        /\ add_result.submitted = <<>>
        /\ collection = add_result.before

C8_Witness ==
    /\ AddDone /\ ~SameLengths
    /\ NumChunks > BatchSize
    /\ add_result.before # {}
    /\ add_result.status = "raised"

\* C9: add_chunks submits the records in consecutive batches of at most 100, in
\* input order, each (chunk, vector) pair in exactly one batch; if the index call
\* for batch k fails, the records of the batches before k remain in the index,
\* no batch after k is submitted, and nothing is rolled back.
C9_Batches ==
    (AddDone /\ SameLengths) =>
        LET sub == add_result.submitted
            flat == Flatten(sub)
        IN /\ \A b \in 1..Len(sub) : Len(sub[b]) >= 1 /\ Len(sub[b]) <= 100
           /\ Len(flat) <= NumChunks
           /\ flat = SubSeq(InputIds, 1, Len(flat))
           /\ add_result.status = "returned" =>
                 /\ Len(flat) = NumChunks
                 /\ \A k \in 1..NumChunks : InputIds[k] \in StoredIds(collection)
           /\ add_result.status = "raised" =>
                 /\ Len(sub) >= 1
                 /\ Len(flat) = Min(Len(sub) * 100, NumChunks)
                 /\ \A b \in 1..(Len(sub) - 1) : \A k \in 1..Len(sub[b]) :
                       sub[b][k] \in StoredIds(collection)
           /\ add_result.before \subseteq collection

C9_Witness ==
    /\ AddDone /\ SameLengths
    /\ NumChunks > 2 * BatchSize
    /\ chroma.fail_at = 2
    /\ add_result.status = "raised"
    /\ Len(add_result.submitted) = 2
    /\ add_result.before # {}
    /\ Cardinality(collection) >= Cardinality(add_result.before) + BatchSize

\* C10: the index holds one record per distinct id, and ingesting a chunk whose
\* derived id equals the id of an already stored record overwrites that record
\* with the new vector, text and metadata.
C10_Original ==
    (AddDone /\ SameLengths /\ chroma.fail_at = 0) =>
        /\ add_result.status = "returned"
        /\ \A r1, r2 \in collection : r1.id = r2.id => r1 = r2
        /\ \A k \in 1..NumChunks :
              Row(add_args.chunks[k], add_args.embeddings[k], k - 1) \in collection

====
